---- MODULE Spec2Model ----
(***************************************************************************)
(* A state-machine model of models/base_model.py (class BaseModel): the    *)
(* registry of names, the networks behind it, the checkpoint files on      *)
(* disk, the gradient and mode flags, and the learning-rate schedulers.    *)
(*                                                                         *)
(* A network (torch.nn.Module) is a module identity with a fixed set of    *)
(* parameter keys; its state_dict is a function from those keys to values. *)
(* The file system is a function from path strings to state dicts.  Every  *)
(* operation of BaseModel is one action; what the last call did (its name, *)
(* its arguments, the exception that left it, the order of its steps) is   *)
(* kept in lastCall.                                                       *)
(***************************************************************************)
EXTENDS Integers, Sequences, FiniteSets, TLC

VARIABLES
    loss_names,     \* self.loss_names
    model_names,    \* self.model_names
    visual_names,   \* self.visual_names
    net_attr,       \* name |-> what getattr(self, "net_" + name) finds
    loss_attr,      \* the names n for which the attribute loss_<n> exists
    visual_attr,    \* the names n for which the attribute <n> exists
    is_train,       \* self.is_train
    save_dir,       \* self.save_dir
    resume_dir,     \* self.opt.resume_dir
    params,         \* module |-> its state_dict (key |-> value)
    requires_grad,  \* module |-> key |-> the parameter's requires_grad flag
    training,       \* module |-> its training-mode flag
    disk,           \* path |-> the state dict stored in that file
    schedulers,     \* self.schedulers: whether built, and each scheduler's step count
    current_step,   \* self.current_step
    input,          \* self.input
    lastCall,       \* the last operation called, its arguments and its outcome
    last_save,      \* the last save call: its kind, epoch and the parameters then
    lr_calls        \* update_learning_rate calls completed since schedulers were built

vars == << loss_names, model_names, visual_names, net_attr, loss_attr, visual_attr,
           is_train, save_dir, resume_dir, params, requires_grad, training, disk,
           schedulers, current_step, input, lastCall, last_save, lr_calls >>

registry == << loss_names, model_names, visual_names >>

-----------------------------------------------------------------------------
(* Bounds of the model *)

\* update_learning_rate is not called once every scheduler has this many steps
MaxStep == 3

\* the number of optimizers the subclass supplies (self.optimizers)
NumOptimizers == 2

-----------------------------------------------------------------------------
(* The world the subclass supplies *)

Modules == {"m1", "m2"}

\* the parameter keys of a module's state_dict
Keys(m) == IF m = "m1" THEN {"w"} ELSE {"w", "b"}

Values == {0, 1}

StateDicts(m) == [Keys(m) -> Values]

Missing == "<missing>"      \* getattr finds no such attribute
NotNet  == "<not a module>" \* the attribute exists and is no nn.Module
NonStr  == "<not a str>"    \* a registered name that is not a string

\* self.schedulers before a train-mode setup: the attribute does not exist
Unset == [built |-> FALSE, steps |-> << >>]

\* dict order of the subclass's get_subnetworks(): name, module
get_subnetworks == << <<"a", "m1">>, <<"b", "m2">> >>

Epochs == {1, 2}


\* nets that are nn.DataParallel wrappers: their own state_dict prefixes every key
DataParallel == {"m2"}

None == "<None>"

\* the default names=None of load_subnetworks: every subnetwork
AllNames == << None >>

NoError == "none"

EmptyDict == [k \in {} |-> 0]

-----------------------------------------------------------------------------
(* Strings, file names and paths *)

\* "{}_net_{}.pth".format(epoch, name)
NetFileName(epoch, name) == ToString(epoch) \o "_net_" \o name \o ".pth"

\* "{}_subnet_{}.pth".format(epoch, name)
SubnetFileName(epoch, name) == ToString(epoch) \o "_subnet_" \o name \o ".pth"

\* "{}_states.pth".format(epoch)
StatesFileName(epoch) == ToString(epoch) \o "_states.pth"

\* os.path.join(dir, filename)
PathJoin(dir, filename) == IF dir = "" THEN filename ELSE dir \o "/" \o filename

\* os.path.isfile(path)
IsFile(d, path) == path \in DOMAIN d

\* str.split(","): a string is a sequence of one-character strings
RECURSIVE SplitFrom(_, _, _)
SplitFrom(s, i, cur) ==
    IF i > Len(s) THEN << cur >>
    ELSE IF s[i] = "," THEN << cur >> \o SplitFrom(s, i + 1, "")
    ELSE SplitFrom(s, i + 1, cur \o s[i])

Split(s) == SplitFrom(s, 1, "")

Range(s) == { s[i] : i \in DOMAIN s }

-----------------------------------------------------------------------------
(* torch.nn.Module: state_dict, load_state_dict, DataParallel *)

\* isinstance(net, nn.DataParallel)
IsDataParallel(net) == net \in DataParallel

\* the net as it is, a DataParallel wrapper not unwrapped
UnwrapNever(net) == [mod |-> net, inner |-> FALSE]

\* "if isinstance(net, nn.DataParallel): net = net.module": the object whose
\* state_dict is read or written, inner = the wrapped module of a DataParallel
Unwrap(net) == [mod |-> net, inner |-> IsDataParallel(net)]

\* the unwrapping before torch.save(net.state_dict(), save_path)
SaveObject(net) == Unwrap(net)

\* the unwrapping before net.load_state_dict(state_dict, strict)
LoadObject(net) == Unwrap(net)

Prefixed(sd) ==
    [k \in { "module." \o j : j \in DOMAIN sd } |->
        sd[CHOOSE j \in DOMAIN sd : "module." \o j = k]]

\* obj.state_dict(): a DataParallel wrapper itself reports the keys prefixed
state_dict(p, obj) ==
    IF IsDataParallel(obj.mod) /\ ~obj.inner THEN Prefixed(p[obj.mod]) ELSE p[obj.mod]

\* the key under which obj knows the parameter j of its module
KeyOf(obj, j) == IF IsDataParallel(obj.mod) /\ ~obj.inner THEN "module." \o j ELSE j

\* a load_state_dict that copies the shared keys and never raises
LoadStateDictNeverStrict(p, obj, sd, strict) ==
    [params |-> [p EXCEPT ![obj.mod] =
                    [j \in Keys(obj.mod) |->
                       IF KeyOf(obj, j) \in DOMAIN sd THEN sd[KeyOf(obj, j)]
                       ELSE p[obj.mod][j]]],
     raised |-> NoError]

\* obj.load_state_dict(sd, strict): the keys both sides have are copied, then a
\* strict load raises when a key is missing from sd or unexpected in it
load_state_dict(p, obj, sd, strict) ==
    LET expected == { KeyOf(obj, j) : j \in Keys(obj.mod) }
        new == [j \in Keys(obj.mod) |->
                  IF KeyOf(obj, j) \in DOMAIN sd THEN sd[KeyOf(obj, j)] ELSE p[obj.mod][j]]
    IN  [params |-> [p EXCEPT ![obj.mod] = new],
         raised |-> IF strict /\ DOMAIN sd # expected THEN "RuntimeError" ELSE NoError]

\* module.requires_grad_(flag): every parameter of the module
requires_grad_(g, m, flag) == [g EXCEPT ![m] = [k \in Keys(m) |-> flag]]

-----------------------------------------------------------------------------
(* Name resolution *)

IsStr(name) == name # NonStr

\* get_networks: the first name that is no str, has no attribute net_<name>, or
\* whose attribute is no nn.Module ends the call; otherwise the nets in order
RECURSIVE GetNetworksFrom(_, _, _)
GetNetworksFrom(names, attr, i) ==
    IF i > Len(names) THEN [ret |-> << >>, raised |-> NoError]
    ELSE IF ~IsStr(names[i]) THEN [ret |-> << >>, raised |-> "AssertionError"]
    ELSE IF attr[names[i]] = Missing THEN [ret |-> << >>, raised |-> "AttributeError"]
    ELSE IF attr[names[i]] = NotNet THEN [ret |-> << >>, raised |-> "AssertionError"]
    ELSE LET rest == GetNetworksFrom(names, attr, i + 1)
         IN  IF rest.raised # NoError THEN rest
             ELSE [ret |-> << attr[names[i]] >> \o rest.ret, raised |-> NoError]

\* as get_networks, with a name that has no attribute passed over
RECURSIVE GetNetworksSkippingFrom(_, _, _)
GetNetworksSkippingFrom(names, attr, i) ==
    IF i > Len(names) THEN [ret |-> << >>, raised |-> NoError]
    ELSE IF ~IsStr(names[i]) THEN [ret |-> << >>, raised |-> "AssertionError"]
    ELSE IF attr[names[i]] = Missing THEN GetNetworksSkippingFrom(names, attr, i + 1)
    ELSE IF attr[names[i]] = NotNet THEN [ret |-> << >>, raised |-> "AssertionError"]
    ELSE LET rest == GetNetworksSkippingFrom(names, attr, i + 1)
         IN  IF rest.raised # NoError THEN rest
             ELSE [ret |-> << attr[names[i]] >> \o rest.ret, raised |-> NoError]

GetNetworksSkipping(names, attr) == GetNetworksSkippingFrom(names, attr, 1)

get_networks(names, attr) == GetNetworksFrom(names, attr, 1)

\* get_current_visuals / get_current_losses: the keys of the dict returned, in
\* order; has is the set of names whose attribute exists
RECURSIVE GetCurrentFrom(_, _, _)
GetCurrentFrom(names, has, i) ==
    IF i > Len(names) THEN [ret |-> << >>, raised |-> NoError]
    ELSE IF ~IsStr(names[i]) THEN [ret |-> << >>, raised |-> "AssertionError"]
    ELSE IF names[i] \notin has THEN [ret |-> << >>, raised |-> "AttributeError"]
    ELSE LET rest == GetCurrentFrom(names, has, i + 1)
         IN  IF rest.raised # NoError THEN rest
             ELSE [ret |-> << names[i] >> \o rest.ret, raised |-> NoError]

get_current(names, has) == GetCurrentFrom(names, has, 1)

-----------------------------------------------------------------------------
(* Checkpoint files *)

\* torch.save(sd, path): failing is the set of paths whose write raises
torch_save(d, path, sd, failing) ==
    IF path \in failing THEN [disk |-> d, raised |-> "OSError"]
    ELSE [disk |-> [q \in DOMAIN d \cup {path} |-> IF q = path THEN sd ELSE d[q]],
          raised |-> NoError]

\* the loop of save_networks (kind "net") and save_subnetworks (kind "subnet")
\* over items = << <<name, net>>, ... >>: an exception of one write is caught
\* and printed; written collects the names whose file was written
CkptFileName(kind, epoch, name) ==
    IF kind = "net" THEN NetFileName(epoch, name) ELSE SubnetFileName(epoch, name)

RECURSIVE SaveLoop(_, _, _, _, _, _, _, _)
SaveLoop(d, p, items, i, kind, epoch, dir, failing) ==
    IF i > Len(items) THEN [disk |-> d, written |-> {}]
    ELSE LET name == items[i][1]
             net  == items[i][2]
             save_path == PathJoin(dir, CkptFileName(kind, epoch, name))
             w    == torch_save(d, save_path, state_dict(p, SaveObject(net)), failing)
             rest == SaveLoop(w.disk, p, items, i + 1, kind, epoch, dir, failing)
         IN  [disk |-> rest.disk,
              written |-> (IF w.raised = NoError THEN {name} ELSE {}) \cup rest.written]

\* the loop of load_networks (strict = FALSE) and load_subnetworks (strict = TRUE)
\* over items, for the names in wanted: a missing file is printed and skipped,
\* an exception of load_state_dict leaves the loop
\* a load loop that ends at the first missing file instead of going on
RECURSIVE LoadLoopStopsAtMissing(_, _, _, _, _, _, _, _, _)
LoadLoopStopsAtMissing(d, p, items, i, wanted, kind, epoch, dir, strict) ==
    IF i > Len(items) THEN [params |-> p, raised |-> NoError]
    ELSE LET name == items[i][1]
             net  == items[i][2]
             load_path == PathJoin(dir, CkptFileName(kind, epoch, name))
         IN  IF name \notin wanted
             THEN LoadLoopStopsAtMissing(d, p, items, i + 1, wanted, kind, epoch, dir,
                                         strict)
             ELSE IF ~IsFile(d, load_path)
             THEN [params |-> p, raised |-> NoError]
             ELSE LET r == load_state_dict(p, LoadObject(net), d[load_path], strict)
                  IN  IF r.raised # NoError THEN r
                      ELSE LoadLoopStopsAtMissing(d, r.params, items, i + 1, wanted,
                                                  kind, epoch, dir, strict)

RECURSIVE LoadLoop(_, _, _, _, _, _, _, _, _)
LoadLoop(d, p, items, i, wanted, kind, epoch, dir, strict) ==
    IF i > Len(items) THEN [params |-> p, raised |-> NoError]
    ELSE LET name == items[i][1]
             net  == items[i][2]
             load_path == PathJoin(dir, CkptFileName(kind, epoch, name))
         IN  IF name \notin wanted
             THEN LoadLoop(d, p, items, i + 1, wanted, kind, epoch, dir, strict)
             ELSE IF ~IsFile(d, load_path)
             THEN LoadLoop(d, p, items, i + 1, wanted, kind, epoch, dir, strict)
             ELSE LET r == load_state_dict(p, LoadObject(net), d[load_path], strict)
                  IN  IF r.raised # NoError THEN r
                      ELSE LoadLoop(d, r.params, items, i + 1, wanted, kind, epoch,
                                    dir, strict)

\* zip(self.model_names, self.get_networks())
Zip(names, nets) ==
    [i \in 1..(IF Len(names) < Len(nets) THEN Len(names) ELSE Len(nets)) |->
        << names[i], nets[i] >>]

SubnetNames == { get_subnetworks[i][1] : i \in DOMAIN get_subnetworks }

SubnetModule(name) ==
    get_subnetworks[CHOOSE i \in DOMAIN get_subnetworks : get_subnetworks[i][1] = name][2]

\* load_networks(epoch) as a function of the state: the nets are resolved first
LoadNetworks(d, p, names, attr, dir, epoch) ==
    LET nets == get_networks(names, attr)
    IN  IF nets.raised # NoError THEN [params |-> p, raised |-> nets.raised]
        ELSE LoadLoop(d, p, Zip(names, nets.ret), 1, Range(names), "net", epoch, dir, FALSE)

\* load_subnetworks(epoch, names, resume_dir) as a function of the state
LoadSubnetworks(d, p, self_resume_dir, epoch, names, dir) ==
    LET wanted == IF names = AllNames THEN SubnetNames ELSE Range(names)
        from   == IF dir # None THEN dir ELSE self_resume_dir
    IN  LoadLoop(d, p, get_subnetworks, 1, wanted, "subnet", epoch, from, TRUE)

\* the loop of freeze_subnetworks / unfreeze_subnetworks: nets[name] raises
\* KeyError for a name that is no key of the subnetwork map
RECURSIVE GradLoop(_, _, _, _)
GradLoop(g, names, i, flag) ==
    IF i > Len(names) THEN [requires_grad |-> g, raised |-> NoError]
    ELSE IF names[i] \notin SubnetNames THEN [requires_grad |-> g, raised |-> "KeyError"]
    ELSE GradLoop(requires_grad_(g, SubnetModule(names[i]), flag), names, i + 1, flag)

\* what print_networks prints: name and number of parameters, net by net
PrintNetworks(names, attr) ==
    LET nets == get_networks(names, attr)
    IN  IF nets.raised # NoError THEN [printed |-> << >>, raised |-> nets.raised]
        ELSE [printed |-> [i \in DOMAIN nets.ret |->
                             << names[i], Cardinality(Keys(nets.ret[i])) >>],
              raised |-> NoError]

-----------------------------------------------------------------------------
(* The operations of BaseModel *)

Call(op, epoch, names, dir, raised, trace) ==
    [op |-> op, epoch |-> epoch, names |-> names, dir |-> dir, raised |-> raised,
     trace |-> trace]

\* initialize(opt)
initialize(opt) ==
    /\ is_train' = opt.is_train
    /\ resume_dir' = opt.resume_dir
    /\ save_dir' = PathJoin(opt.checkpoints_dir, opt.name)
    /\ loss_names' = << >>
    /\ model_names' = << >>
    /\ visual_names' = << >>
    /\ lastCall' = Call("initialize", 0, << >>, "", NoError, << >>)
    /\ UNCHANGED << net_attr, loss_attr, visual_attr, params, requires_grad, training,
                    disk, schedulers, current_step, input, last_save, lr_calls >>

\* a mode switch that reaches the first net only
SetModeFirstOnly(flag) ==
    LET nets == get_networks(model_names, net_attr)
    IN  /\ training' = IF nets.raised # NoError \/ nets.ret = << >> THEN training
                       ELSE [training EXCEPT ![nets.ret[1]] = flag]
        /\ lastCall' = Call(IF flag THEN "train" ELSE "eval", 0, << >>, "",
                            nets.raised, << >>)
        /\ UNCHANGED << registry, net_attr, loss_attr, visual_attr, is_train, save_dir,
                        resume_dir, params, requires_grad, disk, schedulers,
                        current_step, input, last_save, lr_calls >>

\* eval() and train(): net.eval() / net.train() on every net get_networks returns
SetMode(flag) ==
    LET nets == get_networks(model_names, net_attr)
    IN  /\ training' = IF nets.raised # NoError THEN training
                       ELSE [m \in Modules |->
                               IF m \in Range(nets.ret) THEN flag ELSE training[m]]
        /\ lastCall' = Call(IF flag THEN "train" ELSE "eval", 0, << >>, "",
                            nets.raised, << >>)
        /\ UNCHANGED << registry, net_attr, loss_attr, visual_attr, is_train, save_dir,
                        resume_dir, params, requires_grad, disk, schedulers,
                        current_step, input, last_save, lr_calls >>

eval == SetMode(FALSE)

train == SetMode(TRUE)

\* test(): forward() under torch.no_grad(); forward is the subclass's
test ==
    /\ lastCall' = Call("test", 0, << >>, "", NoError,
                        << "no_grad", "forward", "grad_restored" >>)
    /\ UNCHANGED << registry, net_attr, loss_attr, visual_attr, is_train, save_dir,
                    resume_dir, params, requires_grad, training, disk, schedulers,
                    current_step, input, last_save, lr_calls >>

\* a call of get_networks(), get_current_visuals() or get_current_losses():
\* lastCall.names is the value returned (nothing when the call raised)
Getter(op, res) ==
    /\ lastCall' = Call(op, 0, res.ret, "", res.raised, << >>)
    /\ UNCHANGED << registry, net_attr, loss_attr, visual_attr, is_train, save_dir,
                    resume_dir, params, requires_grad, training, disk, schedulers,
                    current_step, input, last_save, lr_calls >>

call_get_networks == Getter("get_networks", get_networks(model_names, net_attr))

get_current_visuals == Getter("get_current_visuals", get_current(visual_names, visual_attr))

get_current_losses == Getter("get_current_losses", get_current(loss_names, loss_attr))

\* freeze_subnetworks(network_names) and unfreeze_subnetworks(network_names)
SetSubnetworksGrad(op, network_names, flag) ==
    LET r == GradLoop(requires_grad, network_names, 1, flag)
    IN  /\ requires_grad' = r.requires_grad
        /\ lastCall' = Call(op, 0, network_names, "", r.raised, << >>)
        /\ UNCHANGED << registry, net_attr, loss_attr, visual_attr, is_train, save_dir,
                        resume_dir, params, training, disk, schedulers, current_step, input,
                        last_save, lr_calls >>

freeze_subnetworks(network_names) ==
    SetSubnetworksGrad("freeze_subnetworks", network_names, FALSE)

\* an unfreeze that passes False
UnfreezeKeepsFrozen(network_names) ==
    SetSubnetworksGrad("unfreeze_subnetworks", network_names, FALSE)

unfreeze_subnetworks(network_names) ==
    SetSubnetworksGrad("unfreeze_subnetworks", network_names, TRUE)

\* set_requires_grad(nets, requires_grad): nets is one net or a list of nets,
\* None (falsy) entries are skipped
set_requires_grad(nets, flag) ==
    LET list == IF nets.is_list THEN nets.value ELSE << nets.value >>
    IN  /\ requires_grad' = [m \in Modules |->
                               IF m \in Range(list) THEN [k \in Keys(m) |-> flag]
                               ELSE requires_grad[m]]
        /\ lastCall' = Call("set_requires_grad", 0, list, "", NoError, << >>)
        /\ UNCHANGED << registry, net_attr, loss_attr, visual_attr, is_train, save_dir,
                        resume_dir, params, training, disk, schedulers, current_step, input,
                        last_save, lr_calls >>

\* as print_networks, taking the names off self.model_names as it prints them
PrintNetworksConsumingNames(verbose) ==
    LET r == PrintNetworks(model_names, net_attr)
    IN  /\ lastCall' = Call("print_networks", 0, << >>, "", r.raised, r.printed)
        /\ model_names' = << >>
        /\ UNCHANGED << loss_names, visual_names, net_attr, loss_attr, visual_attr,
                        is_train, save_dir, resume_dir, params, requires_grad, training,
                        disk, schedulers, current_step, input, last_save, lr_calls >>

\* print_networks(verbose)
print_networks(verbose) ==
    LET r == PrintNetworks(model_names, net_attr)
    IN  /\ lastCall' = Call("print_networks", 0, << >>, "", r.raised, r.printed)
        /\ UNCHANGED << registry, net_attr, loss_attr, visual_attr, is_train, save_dir,
                        resume_dir, params, requires_grad, training, disk, schedulers,
                        current_step, input, last_save, lr_calls >>

\* set_input(input)
set_input(batch) ==
    /\ input' = batch
    /\ lastCall' = Call("set_input", 0, << >>, "", NoError, << >>)
    /\ UNCHANGED << registry, net_attr, loss_attr, visual_attr, is_train, save_dir,
                    resume_dir, params, requires_grad, training, disk, schedulers,
                    current_step, last_save, lr_calls >>

\* set_current_step(step)
set_current_step(step) ==
    /\ current_step' = step
    /\ lastCall' = Call("set_current_step", 0, << >>, "", NoError, << >>)
    /\ UNCHANGED << registry, net_attr, loss_attr, visual_attr, is_train, save_dir,
                    resume_dir, params, requires_grad, training, disk, schedulers,
                    input, last_save, lr_calls >>

\* save_networks(epoch, other_states): the nets' files, then the states file,
\* whose write is outside the try
save_networks(epoch, other_states, failing) ==
    \E nets \in { get_networks(model_names, net_attr) } :
    \E loop \in { SaveLoop(disk, params, Zip(model_names, nets.ret), 1, "net", epoch,
                           save_dir, failing) } :
    \E st \in { torch_save(loop.disk, PathJoin(save_dir, StatesFileName(epoch)),
                           other_states, failing) } :
        /\ disk' = IF nets.raised # NoError THEN disk ELSE st.disk
        /\ lastCall' = Call("save_networks", epoch, model_names, save_dir,
                            IF nets.raised # NoError THEN nets.raised ELSE st.raised,
                            << >>)
        /\ last_save' = [kind |-> "net", epoch |-> epoch, dir |-> save_dir,
                         snap |-> params,
                         written |-> IF nets.raised # NoError THEN {} ELSE loop.written]
        /\ UNCHANGED << registry, net_attr, loss_attr, visual_attr, is_train, save_dir,
                        resume_dir, params, requires_grad, training, schedulers,
                        current_step, input, lr_calls >>

\* save_subnetworks(epoch)
save_subnetworks(epoch, failing) ==
    \E loop \in { SaveLoop(disk, params, get_subnetworks, 1, "subnet", epoch, save_dir,
                           failing) } :
        /\ disk' = loop.disk
        /\ lastCall' = Call("save_subnetworks", epoch, << >>, save_dir, NoError, << >>)
        /\ last_save' = [kind |-> "subnet", epoch |-> epoch, dir |-> save_dir,
                         snap |-> params, written |-> loop.written]
        /\ UNCHANGED << registry, net_attr, loss_attr, visual_attr, is_train, save_dir,
                        resume_dir, params, requires_grad, training, schedulers,
                        current_step, input, lr_calls >>

\* load_networks(epoch)
load_networks(epoch) ==
    \E r \in { LoadNetworks(disk, params, model_names, net_attr, resume_dir, epoch) } :
        /\ params' = r.params
        /\ lastCall' = Call("load_networks", epoch, model_names, resume_dir, r.raised,
                            << >>)
        /\ UNCHANGED << registry, net_attr, loss_attr, visual_attr, is_train, save_dir,
                        resume_dir, requires_grad, training, disk, schedulers,
                        current_step, input, last_save, lr_calls >>

\* load_subnetworks(epoch, names, resume_dir)
load_subnetworks(epoch, names, dir) ==
    \E r \in { LoadSubnetworks(disk, params, resume_dir, epoch, names, dir) } :
        /\ params' = r.params
        /\ lastCall' = Call("load_subnetworks", epoch, names,
                            IF dir # None THEN dir ELSE resume_dir, r.raised, << >>)
        /\ UNCHANGED << registry, net_attr, loss_attr, visual_attr, is_train, save_dir,
                        resume_dir, requires_grad, training, disk, schedulers,
                        current_step, input, last_save, lr_calls >>

\* update_learning_rate(verbose): every scheduler steps, then every optimizer's
\* learning rate is read; self.schedulers exists only after a train-mode setup
StepEvents(n) == [i \in 1..n |-> << "step", i >>]

ReadEvents(n) == [i \in 1..n |-> << "lr", i >>]

\* a loop that leaves out the last scheduler
StepSchedulersSkipLast(s) == [i \in DOMAIN s |-> IF i = Len(s) THEN s[i] ELSE s[i] + 1]

\* for scheduler in self.schedulers: scheduler.step()
StepSchedulers(s) == [i \in DOMAIN s |-> s[i] + 1]

update_learning_rate(verbose) ==
    /\ \A i \in DOMAIN schedulers.steps : schedulers.steps[i] < MaxStep
    /\ IF ~schedulers.built
       THEN /\ lastCall' = Call("update_learning_rate", 0, << >>, "", "AttributeError",
                                << >>)
            /\ UNCHANGED << schedulers, lr_calls >>
       ELSE /\ schedulers' = [schedulers EXCEPT !.steps = StepSchedulers(@)]
            /\ lr_calls' = lr_calls + 1
            /\ lastCall' = Call("update_learning_rate", 0, << >>, "", NoError,
                                StepEvents(Len(schedulers.steps)) \o ReadEvents(NumOptimizers))
    /\ UNCHANGED << registry, net_attr, loss_attr, visual_attr, is_train, save_dir,
                    resume_dir, params, requires_grad, training, disk, current_step, input,
                    last_save >>

\* the parameters of a net change (the subclass's training step)
change_parameters(m, sd) ==
    /\ params' = [params EXCEPT ![m] = sd]
    /\ lastCall' = Call("change_parameters", 0, << m >>, "", NoError, << >>)
    /\ UNCHANGED << registry, net_attr, loss_attr, visual_attr, is_train, save_dir,
                    resume_dir, requires_grad, training, disk, schedulers, current_step, input,
                    last_save, lr_calls >>

\* the order with the freeze between the two loads
SetupOrderFreezeBeforeLoad ==
    << "schedulers", "load_subnetworks", "freeze_subnetworks", "load_networks",
       "print_networks" >>

\* setup(opt): the steps in the order of the code; a step whose condition is
\* false is passed over, an exception of a step leaves setup
SetupOrder ==
    << "schedulers", "load_subnetworks", "load_networks", "freeze_subnetworks",
       "print_networks" >>

SetupStep(st, opt, step) ==
    LET began == [st EXCEPT !.trace = Append(@, step)]
    IN  CASE step = "schedulers" ->
               IF is_train
               THEN [began EXCEPT !.schedulers =
                                     [built |-> TRUE, steps |-> [i \in 1..NumOptimizers |-> 0]],
                                  !.lr_calls = 0]
               ELSE st
          [] step = "load_subnetworks" ->
               IF opt.load_subnetworks_dir # ""
               THEN LET r == LoadSubnetworks(disk, st.params, resume_dir,
                                             opt.load_subnetworks_epoch,
                                             Split(opt.load_subnetworks),
                                             opt.load_subnetworks_dir)
                    IN  [began EXCEPT !.params = r.params, !.raised = r.raised]
               ELSE st
          [] step = "load_networks" ->
               IF ~is_train \/ opt.resume_dir # ""
               THEN LET r == LoadNetworks(disk, st.params, model_names, net_attr,
                                          resume_dir, opt.resume_epoch)
                    IN  [began EXCEPT !.params = r.params, !.raised = r.raised]
               ELSE st
          [] step = "freeze_subnetworks" ->
               IF opt.freeze_subnetworks # << >>
               THEN LET r == GradLoop(st.requires_grad, Split(opt.freeze_subnetworks),
                                      1, FALSE)
                    IN  [began EXCEPT !.requires_grad = r.requires_grad,
                                      !.raised = r.raised]
               ELSE st
          [] step = "print_networks" ->
               [began EXCEPT !.raised = PrintNetworks(model_names, net_attr).raised]

RECURSIVE RunSetup(_, _, _)
RunSetup(st, opt, i) ==
    IF i > Len(SetupOrder) \/ st.raised # NoError THEN st
    ELSE RunSetup(SetupStep(st, opt, SetupOrder[i]), opt, i + 1)

setup(opt) ==
    /\ opt.resume_dir = resume_dir
    /\ \E st \in { RunSetup([params |-> params, requires_grad |-> requires_grad,
                              schedulers |-> schedulers, lr_calls |-> lr_calls,
                              raised |-> NoError, trace |-> << >>], opt, 1) } :
        /\ params' = st.params
        /\ requires_grad' = st.requires_grad
        /\ schedulers' = st.schedulers
        /\ lr_calls' = st.lr_calls
        /\ lastCall' = Call("setup", opt.resume_epoch, Split(opt.freeze_subnetworks),
                            opt.load_subnetworks_dir, st.raised, st.trace)
        /\ UNCHANGED << registry, net_attr, loss_attr, visual_attr, is_train, save_dir,
                        resume_dir, training, disk, current_step, input, last_save >>

-----------------------------------------------------------------------------
(* The state after construction: initialize(opt), then the subclass registers  *)
(* its names and creates its nets                                            *)

Names == {"a", "b"}

ModelNameChoices ==
    { << >>, << "a" >>, << "b" >>, << "a", "b" >>, << "b", "a" >>, << "a", NonStr >> }

NetAttrChoices ==
    { f \in [Names -> Modules \cup {Missing, NotNet}] : f["a"] # "m2" /\ f["b"] # "m1" }

OtherNameChoices == { << >>, << "x" >>, << "x", "y" >>, << "x", NonStr >> }

OtherAttrChoices == { {"x", "y"}, {"x"}, {} }

\* the module a checkpoint file of that name is meant for
ModuleOf(name) == IF name = "a" THEN "m1" ELSE "m2"

\* a checkpoint file left by an earlier run: written from the module itself
\* ("match"), or with other keys ("extra": one more key, "partial": only one of
\* the keys, "prefixed": saved from the DataParallel wrapper)
OldFile(name, how) ==
    LET ones == [k \in Keys(ModuleOf(name)) |-> 1]
    IN  CASE how = "match"    -> ones
          [] how = "extra"    -> ones @@ ("x" :> 1)
          [] how = "partial"  -> [k \in {"w"} |-> 1]
          [] how = "prefixed" -> Prefixed(ones)

CkptKinds == {"net", "subnet"}

\* the directory "pre" of an earlier run: c says, for each file of epoch 1,
\* whether it exists and how it was written; epoch 2 holds the files of b only
OldDisk(c) ==
    LET here == { f \in CkptKinds \X Names : c[f] # "none" }
        path(f) == PathJoin("pre", CkptFileName(f[1], 1, f[2]))
        one == [q \in { path(f) : f \in here } |->
                  LET f == CHOOSE g \in here : path(g) = q IN OldFile(f[2], c[f])]
    IN  one
        @@ (PathJoin("pre", SubnetFileName(2, "b")) :> OldFile("b", "match"))
        @@ (PathJoin("pre", NetFileName(2, "b")) :> OldFile("b", "prefixed"))

OldDiskChoices ==
    { c \in [CkptKinds \X Names -> {"none", "match", "extra", "partial"}] :
        /\ \A k \in CkptKinds : c[<< k, "a" >>] # "partial"
        /\ \A k \in CkptKinds : c[<< k, "b" >>] # "extra" }

\* one such directory: subnet a as written, subnet b partial, net a with an
\* extra key, net b partial
Pretrained ==
    OldDisk([f \in CkptKinds \X Names |->
               IF f = << "subnet", "a" >> THEN "match"
               ELSE IF f[2] = "a" THEN "extra" ELSE "partial"])

CheckpointsDir == "ckpt"

RunName == "run"

ResumeDirs == { "", PathJoin(CheckpointsDir, RunName), "pre" }

NoCall == Call("", 0, << >>, "", NoError, << >>)

NoSave == [kind |-> "", epoch |-> 0, dir |-> "", snap |-> EmptyDict, written |-> {}]

Init ==
    /\ disk \in { OldDisk(c) : c \in OldDiskChoices }
    /\ save_dir = PathJoin(CheckpointsDir, RunName)
    /\ resume_dir \in ResumeDirs
    /\ is_train \in BOOLEAN
    /\ schedulers = Unset
    /\ current_step = 0
    /\ input = None
    /\ lastCall = NoCall
    /\ last_save = NoSave
    /\ lr_calls = 0
    /\ params \in [Modules -> UNION { StateDicts(m) : m \in Modules }]
    /\ \A m \in Modules : params[m] \in StateDicts(m)
    /\ requires_grad \in [Modules -> UNION { [Keys(m) -> BOOLEAN] : m \in Modules }]
    /\ \A m \in Modules : DOMAIN requires_grad[m] = Keys(m)
    /\ training \in [Modules -> BOOLEAN]
    /\ net_attr \in NetAttrChoices
    /\ model_names \in ModelNameChoices
    /\ loss_attr \in OtherAttrChoices
    /\ loss_names \in OtherNameChoices
    /\ visual_attr \in OtherAttrChoices
    /\ visual_names \in OtherNameChoices

\* every registered name resolves: the nets a and b, one loss, one visual
Resolved ==
    /\ loss_names = << "x" >>
    /\ visual_names = << "x" >>
    /\ loss_attr = {"x", "y"}
    /\ visual_attr = {"x", "y"}
    /\ net_attr = [n \in Names |-> ModuleOf(n)]
    /\ model_names = << "a", "b" >>

ZeroParams == [m \in Modules |-> [k \in Keys(m) |-> 0]]

AllGrad == [m \in Modules |-> [k \in Keys(m) |-> TRUE]]

Fresh ==
    /\ params = ZeroParams
    /\ requires_grad = AllGrad
    /\ training = [m \in Modules |-> TRUE]

-----------------------------------------------------------------------------
(* Checkpoints: save, change the parameters, load *)

\* one write fails, or none
FailingChoices(epoch) ==
    { {} } \cup
    { { PathJoin(save_dir, f) } :
        f \in { NetFileName(epoch, "a"), SubnetFileName(epoch, "b"),
                StatesFileName(epoch) } }

InitCkpt ==
    /\ Resolved
    /\ Fresh
    /\ is_train = TRUE
    /\ resume_dir \in ResumeDirs \ {""}
    /\ disk = Pretrained
    /\ Init

NextCkpt ==
    \/ \E failing \in FailingChoices(1) : save_networks(1, EmptyDict, failing)
    \/ \E failing \in FailingChoices(1) : save_subnetworks(1, failing)
    \/ \E epoch \in Epochs : load_networks(epoch)
    \/ \E epoch \in Epochs : \E names \in { AllNames, << "b" >> } :
           load_subnetworks(epoch, names, None)
    \/ \E m \in Modules : \E sd \in StateDicts(m) : change_parameters(m, sd)

SpecCkpt == InitCkpt /\ [][NextCkpt]_vars

-----------------------------------------------------------------------------
(* Loading from the files of an earlier run *)

NameArgs == { AllNames, << "a" >>, << "b" >>, << "b", "a" >>, << "a", "z" >> }

InitLoad ==
    /\ Resolved
    /\ Fresh
    /\ is_train = TRUE
    /\ resume_dir \in ResumeDirs \ {""}
    /\ Init

NextLoad ==
    \/ \E epoch \in Epochs : load_networks(epoch)
    \/ \E epoch \in Epochs : \E names \in NameArgs : \E dir \in {None, "pre"} :
           load_subnetworks(epoch, names, dir)
    \/ \E m \in Modules : \E sd \in StateDicts(m) : change_parameters(m, sd)

SpecLoad == InitLoad /\ [][NextLoad]_vars

-----------------------------------------------------------------------------
(* What a load call was asked to do, read off lastCall *)

IsLoad(c) == c.op \in {"load_networks", "load_subnetworks"}

\* the names whose file the call looks for
Wanted(c) ==
    IF c.op = "load_networks" THEN Range(c.names)
    ELSE IF c.names = AllNames THEN SubnetNames
    ELSE Range(c.names) \cap SubnetNames

Target(c, n) == IF c.op = "load_networks" THEN net_attr[n] ELSE SubnetModule(n)

FilePath(c, n) ==
    PathJoin(c.dir, IF c.op = "load_networks" THEN NetFileName(c.epoch, n)
                    ELSE SubnetFileName(c.epoch, n))

HasFile(c, n) == FilePath(c, n) \in DOMAIN disk

SameKeys(c, n) == DOMAIN disk[FilePath(c, n)] = Keys(Target(c, n))

\* the parameters of a module after the file's values for its keys are copied in
Overwritten(old, file) ==
    [k \in DOMAIN old |-> IF k \in DOMAIN file THEN file[k] ELSE old[k]]

-----------------------------------------------------------------------------
(* C1: round trip of save and load *)

\* C1, as claimed: after save_networks(epoch) (resp. save_subnetworks(epoch)),
\* any changes of the parameters and load_networks(epoch) (resp.
\* load_subnetworks(epoch)), every named network has the parameter values it
\* had at the moment of the save.
C1_RoundTripAsClaimed ==
    /\ (lastCall.op = "load_networks" /\ last_save.kind = "net"
          /\ last_save.epoch = lastCall.epoch)
       => \A n \in Range(model_names) :
             params[net_attr[n]] = last_save.snap[net_attr[n]]
    /\ (lastCall.op = "load_subnetworks" /\ last_save.kind = "subnet"
          /\ last_save.epoch = lastCall.epoch)
       => \A n \in Wanted(lastCall) :
             params[SubnetModule(n)] = last_save.snap[SubnetModule(n)]

\* C1, amended: the same, for the networks whose file the save did write, when
\* the load reads the directory the save wrote to and returns normally.
C1_RoundTrip ==
    /\ (lastCall.op = "load_networks" /\ last_save.kind = "net"
          /\ last_save.epoch = lastCall.epoch /\ lastCall.dir = last_save.dir
          /\ lastCall.raised = NoError)
       => \A n \in Range(model_names) \cap last_save.written :
             params[net_attr[n]] = last_save.snap[net_attr[n]]
    /\ (lastCall.op = "load_subnetworks" /\ last_save.kind = "subnet"
          /\ last_save.epoch = lastCall.epoch /\ lastCall.dir = last_save.dir
          /\ lastCall.raised = NoError)
       => \A n \in Wanted(lastCall) \cap last_save.written :
             params[SubnetModule(n)] = last_save.snap[SubnetModule(n)]

\* a load has restored what a save of both nets wrote, and it was not the
\* initial parameters
C1_Witness ==
    /\ lastCall.op = "load_networks"
    /\ last_save.kind = "net"
    /\ last_save.epoch = lastCall.epoch
    /\ lastCall.dir = last_save.dir
    /\ last_save.written = {"a", "b"}
    /\ last_save.snap["m2"] = [k \in Keys("m2") |-> IF k = "w" THEN 1 ELSE 0]
    /\ params = last_save.snap

-----------------------------------------------------------------------------
(* C3: exceptions while saving *)

\* C3: no exception raised while writing leaves save_networks or
\* save_subnetworks, the write of the states file included.
C3_SaveNeverRaises ==
    lastCall.op \in {"save_networks", "save_subnetworks"} => lastCall.raised = NoError

-----------------------------------------------------------------------------
(* C4: a missing checkpoint file *)

\* C4, as claimed: when the file of a requested name is missing, the load does
\* not raise.
C4_MissingFileAsClaimed ==
    (IsLoad(lastCall) /\ \E n \in Wanted(lastCall) : ~HasFile(lastCall, n))
    => lastCall.raised = NoError

\* C4, amended: a network whose file is missing keeps its parameters; and when
\* no file that exists is refused by the strict load of load_subnetworks, the
\* call returns normally and every requested name whose file exists is loaded.
C4_LoadStep ==
    LET c == lastCall'
    IN  IsLoad(c) =>
          /\ \A n \in Wanted(c) :
                ~HasFile(c, n) => params'[Target(c, n)] = params[Target(c, n)]
          /\ (c.op = "load_networks"
                \/ \A n \in Wanted(c) : HasFile(c, n) => SameKeys(c, n))
             => /\ c.raised = NoError
                /\ \A n \in Wanted(c) :
                      HasFile(c, n) =>
                         params'[Target(c, n)] =
                            Overwritten(params[Target(c, n)], disk[FilePath(c, n)])

\* C4, amended: every step of a behaviour is such a step
C4_MissingFile == [][C4_LoadStep]_vars

\* load_subnetworks found no file for a, the first subnetwork, and loaded b
C4_Witness ==
    /\ lastCall.op = "load_subnetworks"
    /\ lastCall.raised = NoError
    /\ Wanted(lastCall) = {"a", "b"}
    /\ ~HasFile(lastCall, "a")
    /\ HasFile(lastCall, "b")
    /\ params["m1"] = ZeroParams["m1"]
    /\ params["m2"] = disk[FilePath(lastCall, "b")]
    /\ params["m2"] # ZeroParams["m2"]

-----------------------------------------------------------------------------
(* C8: strict and non-strict loading *)

\* C8: load_subnetworks raises exactly when a file it reads has another key set
\* than the subnetwork; load_networks never raises for that, copies the values
\* of the keys the file shares with the net and leaves the net's other
\* parameters as they were.
C8_LoadStep ==
    LET c == lastCall'
    IN  /\ c.op = "load_subnetworks" =>
              (c.raised = "RuntimeError"
                 <=> \E n \in Wanted(c) : HasFile(c, n) /\ ~SameKeys(c, n))
        /\ c.op = "load_networks" =>
              /\ c.raised = NoError
              /\ \A n \in Wanted(c) :
                    HasFile(c, n) =>
                       \A k \in Keys(Target(c, n)) :
                          params'[Target(c, n)][k] =
                             IF k \in DOMAIN disk[FilePath(c, n)]
                             THEN disk[FilePath(c, n)][k]
                             ELSE params[Target(c, n)][k]

\* C8: every step of a behaviour is such a step
C8_StrictAndNonStrict == [][C8_LoadStep]_vars

\* load_subnetworks has refused the file of b, which lacks a key of the subnetwork
C8_Witness ==
    /\ lastCall.op = "load_subnetworks"
    /\ lastCall.raised = "RuntimeError"
    /\ HasFile(lastCall, "b")
    /\ DOMAIN disk[FilePath(lastCall, "b")] = {"w"}

-----------------------------------------------------------------------------
(* Name resolution: the getters *)

InitRegistry ==
    /\ Fresh
    /\ is_train = TRUE
    /\ resume_dir = "pre"
    /\ disk = Pretrained
    /\ Init

NextRegistry ==
    \/ call_get_networks
    \/ get_current_visuals
    \/ get_current_losses

SpecRegistry == InitRegistry /\ [][NextRegistry]_vars

IsGetter(c) == c.op \in {"get_networks", "get_current_visuals", "get_current_losses"}

Registered(c) ==
    CASE c.op = "get_networks" -> model_names
      [] c.op = "get_current_visuals" -> visual_names
      [] c.op = "get_current_losses" -> loss_names

\* the name has no attribute behind it
NoAttribute(c, n) ==
    CASE c.op = "get_networks" -> net_attr[n] = Missing
      [] c.op = "get_current_visuals" -> n \notin visual_attr
      [] c.op = "get_current_losses" -> n \notin loss_attr

\* the name is no str, or (get_networks) its attribute is no network
FailsAssert(c, n) == ~IsStr(n) \/ (c.op = "get_networks" /\ net_attr[n] = NotNet)

Offending(c, i) ==
    LET n == Registered(c)[i] IN ~IsStr(n) \/ NoAttribute(c, n) \/ FailsAssert(c, n)

-----------------------------------------------------------------------------
(* eval() and train() *)

InitMode ==
    /\ loss_names = << "x" >>
    /\ visual_names = << "x" >>
    /\ loss_attr = {"x", "y"}
    /\ visual_attr = {"x", "y"}
    /\ params = ZeroParams
    /\ requires_grad = AllGrad
    /\ is_train = TRUE
    /\ resume_dir = "pre"
    /\ disk = Pretrained
    /\ Init

NextMode ==
    \/ eval
    \/ train

SpecMode == InitMode /\ [][NextMode]_vars

\* C9: after eval() or train() on a model whose registered names all resolve
\* to networks, every registered network is in the mode of that call.
C9_ModeOfLastCall ==
    (lastCall.op \in {"eval", "train"}
       /\ \A i \in DOMAIN model_names :
             IsStr(model_names[i]) /\ net_attr[model_names[i]] \in Modules)
    => /\ lastCall.raised = NoError
       /\ \A i \in DOMAIN model_names :
             training[net_attr[model_names[i]]] = (lastCall.op = "train")

\* eval() has put both registered networks in eval mode
C9_Witness ==
    /\ lastCall.op = "eval"
    /\ lastCall.raised = NoError
    /\ Len(model_names) = 2
    /\ \A m \in Modules : ~training[m]

-----------------------------------------------------------------------------
(* freeze_subnetworks, unfreeze_subnetworks, set_requires_grad *)

SubnetNameLists ==
    { << >>, << "a" >>, << "b" >>, << "a", "b" >>, << "b", "a" >>, << "a", "z" >>,
      << "z", "b" >> }

NetArgs ==
    { [is_list |-> FALSE, value |-> "m1"], [is_list |-> FALSE, value |-> "m2"],
      [is_list |-> FALSE, value |-> None], [is_list |-> TRUE, value |-> << >>],
      [is_list |-> TRUE, value |-> << "m1", "m2" >>],
      [is_list |-> TRUE, value |-> << None, "m2" >>] }

InitGrad ==
    /\ Resolved
    /\ params = ZeroParams
    /\ is_train = TRUE
    /\ resume_dir = "pre"
    /\ disk = Pretrained
    /\ Init

NextGrad ==
    \/ \E names \in SubnetNameLists : freeze_subnetworks(names)
    \/ \E names \in SubnetNameLists : unfreeze_subnetworks(names)
    \/ \E nets \in NetArgs : \E flag \in BOOLEAN : set_requires_grad(nets, flag)

SpecGrad == InitGrad /\ [][NextGrad]_vars

\* C6: for names that are all keys of the subnetwork map, and whatever the
\* flags were, after freeze_subnetworks(names) gradient tracking is disabled
\* on every parameter of every named subnetwork, and after a following
\* unfreeze_subnetworks(names) it is enabled on all of them.
C6_FreezeStep ==
    /\ (lastCall'.op = "freeze_subnetworks" /\ Range(lastCall'.names) \subseteq SubnetNames)
       => /\ lastCall'.raised = NoError
          /\ \A n \in Range(lastCall'.names) : \A k \in Keys(SubnetModule(n)) :
                ~requires_grad'[SubnetModule(n)][k]
    /\ (lastCall'.op = "unfreeze_subnetworks" /\ Range(lastCall'.names) \subseteq SubnetNames
          /\ lastCall.op = "freeze_subnetworks" /\ lastCall.names = lastCall'.names)
       => /\ lastCall'.raised = NoError
          /\ \A n \in Range(lastCall'.names) : \A k \in Keys(SubnetModule(n)) :
                requires_grad'[SubnetModule(n)][k]

\* C6: every step of a behaviour is such a step
C6_FreezeUnfreeze == [][C6_FreezeStep]_vars

\* unfreeze_subnetworks has enabled gradient tracking on both subnetworks
C6_Witness ==
    /\ lastCall.op = "unfreeze_subnetworks"
    /\ Range(lastCall.names) = {"a", "b"}
    /\ requires_grad = AllGrad

-----------------------------------------------------------------------------
(* setup(opt) and update_learning_rate *)

\* the comma-separated option strings, character by character
NameListOptions ==
    { << >>, << "a" >>, << "a", ",", "b" >>, << "b", ",", "a" >>, << "z" >> }

SetupOptions(self_resume_dir) ==
    [ load_subnetworks_dir : {"", "pre"},
      load_subnetworks : { << "a" >>, << "a", ",", "b" >> },
      load_subnetworks_epoch : Epochs,
      resume_dir : {self_resume_dir},
      resume_epoch : Epochs,
      freeze_subnetworks : NameListOptions,
      verbose : {FALSE} ]

InitSetup ==
    /\ loss_names = << "x" >>
    /\ visual_names = << "x" >>
    /\ loss_attr = {"x", "y"}
    /\ visual_attr = {"x", "y"}
    /\ model_names = << "a", "b" >>
    /\ net_attr \in { f \in NetAttrChoices : f["a"] = "m1" /\ f["b"] # NotNet }
    /\ Fresh
    /\ disk = Pretrained
    /\ Init

NextSetup ==
    \/ \E opt \in SetupOptions(resume_dir) : setup(opt)
    \/ \E verbose \in BOOLEAN : update_learning_rate(verbose)

SpecSetup == InitSetup /\ [][NextSetup]_vars

\* the place of a step in the trace of a call, 0 when it did not happen
Pos(c, step) ==
    IF \E i \in DOMAIN c.trace : c.trace[i] = step
    THEN CHOOSE i \in DOMAIN c.trace : c.trace[i] = step
    ELSE 0

Happened(c, step) == Pos(c, step) > 0

\* C2, as claimed: in setup, the subnetwork load happens before the freeze, and
\* the freeze before the full-network load.
C2_OrderAsClaimed ==
    lastCall.op = "setup" =>
       /\ (Happened(lastCall, "load_subnetworks") /\ Happened(lastCall, "freeze_subnetworks"))
          => Pos(lastCall, "load_subnetworks") < Pos(lastCall, "freeze_subnetworks")
       /\ (Happened(lastCall, "freeze_subnetworks") /\ Happened(lastCall, "load_networks"))
          => Pos(lastCall, "freeze_subnetworks") < Pos(lastCall, "load_networks")

\* C2, amended: the subnetwork load happens before the full-network load, and
\* the full-network load before the freeze; so when the full-network load
\* raises, no gradient flag has changed.
C2_OrderStep ==
    LET c == lastCall'
    IN  c.op = "setup" =>
          /\ (Happened(c, "load_subnetworks") /\ Happened(c, "load_networks"))
             => Pos(c, "load_subnetworks") < Pos(c, "load_networks")
          /\ (Happened(c, "load_networks") /\ Happened(c, "freeze_subnetworks"))
             => Pos(c, "load_networks") < Pos(c, "freeze_subnetworks")
          /\ (Happened(c, "load_subnetworks") /\ Happened(c, "freeze_subnetworks"))
             => Pos(c, "load_subnetworks") < Pos(c, "freeze_subnetworks")
          /\ (c.raised # NoError /\ c.trace[Len(c.trace)] = "load_networks")
             => requires_grad' = requires_grad

\* C2, amended: every step of a behaviour is such a step
C2_Order == [][C2_OrderStep]_vars

\* a setup in which all three steps happened and froze a subnetwork
C2_Witness ==
    /\ lastCall.op = "setup"
    /\ lastCall.raised = NoError
    /\ Pos(lastCall, "load_subnetworks") = 2
    /\ Pos(lastCall, "load_networks") = 3
    /\ Pos(lastCall, "freeze_subnetworks") = 4
    /\ requires_grad # AllGrad

\* C7: every call of update_learning_rate steps every scheduler once, so that
\* after k calls following a train-mode setup every scheduler has k steps; and
\* within a call every scheduler steps before any learning rate is read.
C7_SchedulerSteps ==
    /\ schedulers.built =>
          /\ Len(schedulers.steps) = NumOptimizers
          /\ \A i \in DOMAIN schedulers.steps : schedulers.steps[i] = lr_calls
    /\ (lastCall.op = "update_learning_rate" /\ lastCall.raised = NoError) =>
          /\ \A i \in DOMAIN schedulers.steps :
                Cardinality({ j \in DOMAIN lastCall.trace :
                                lastCall.trace[j] = << "step", i >> }) = 1
          /\ \A j, l \in DOMAIN lastCall.trace :
                (lastCall.trace[j][1] = "step" /\ lastCall.trace[l][1] = "lr") => j < l

\* two calls of update_learning_rate since the schedulers were built
C7_Witness ==
    /\ lastCall.op = "update_learning_rate"
    /\ lastCall.raised = NoError
    /\ lr_calls = 2
    /\ schedulers.steps = [i \in 1..NumOptimizers |-> 2]

-----------------------------------------------------------------------------
(* Every operation of BaseModel *)

InitializeOptions ==
    [ is_train : BOOLEAN,
      resume_dir : { PathJoin(CheckpointsDir, RunName) },
      checkpoints_dir : { CheckpointsDir },
      name : { RunName } ]

PlainSetupOptions(self_resume_dir) ==
    { opt \in SetupOptions(self_resume_dir) :
        /\ opt.load_subnetworks_dir = ""
        /\ opt.load_subnetworks = << "a" >>
        /\ opt.load_subnetworks_epoch = 1
        /\ opt.resume_epoch = 1
        /\ opt.freeze_subnetworks \in { << >>, << "b" >> } }

InitAll ==
    /\ Resolved
    /\ Fresh
    /\ is_train = TRUE
    /\ resume_dir = PathJoin(CheckpointsDir, RunName)
    /\ disk = Pretrained
    /\ Init

Next ==
    \/ \E opt \in InitializeOptions : initialize(opt)
    \/ \E opt \in PlainSetupOptions(resume_dir) : setup(opt)
    \/ eval
    \/ train
    \/ test
    \/ call_get_networks
    \/ get_current_visuals
    \/ get_current_losses
    \/ freeze_subnetworks(<< "a" >>)
    \/ unfreeze_subnetworks(<< "a" >>)
    \/ save_subnetworks(1, {})
    \/ load_subnetworks(1, AllNames, None)
    \/ save_networks(1, EmptyDict, {})
    \/ load_networks(1)
    \/ print_networks(FALSE)
    \/ \E flag \in BOOLEAN : set_requires_grad([is_list |-> FALSE, value |-> "m2"], flag)
    \/ update_learning_rate(FALSE)
    \/ set_current_step(1)
    \/ set_input("batch")

Spec == InitAll /\ [][Next]_vars

\* C10: no operation other than initialize changes loss_names, model_names or
\* visual_names, and initialize leaves all three empty.
C10_RegistryStep ==
    /\ lastCall'.op # "initialize" => registry' = registry
    /\ lastCall'.op = "initialize" => registry' = << << >>, << >>, << >> >>

\* C10: every step of a behaviour is such a step
C10_RegistryFrame == [][C10_RegistryStep]_vars

\* setup, a freeze, a save and a learning-rate update have run, and the names
\* registered at construction are still there
C10_Witness ==
    /\ lastCall.op = "update_learning_rate"
    /\ lr_calls = 1
    /\ last_save.kind = "net"
    /\ last_save.written = {"a", "b"}
    /\ requires_grad # AllGrad
    /\ registry = << << "x" >>, << "a", "b" >>, << "x" >> >>

=============================================================================
